---------------------------- MODULE Spec2Model ----------------------------
(***************************************************************************)
(* Model of rgt/HINT/evaluation.py (class Evaluation): the TF ChIP-seq     *)
(* based evaluation of footprint predictions.                              *)
(*                                                                         *)
(* Numbers.  A region's data field holds the decimal text of an integer    *)
(* score; int(region.data) and str(...) are modelled on the integer they   *)
(* denote.  Rates (fpr, tpr, recall, precision) and areas are Python       *)
(* floats in the program; the model computes them as exact fractions       *)
(* [n, d] in lowest terms, so the rounding of IEEE doubles is outside the  *)
(* model.                                                                  *)
(*                                                                         *)
(* Regions.  A GenomicRegion is a record [chrom, initial, final, name,     *)
(* data]; name is the sequence of the ":"-separated tokens of the name     *)
(* string.  A GenomicRegionSet is the sequence of its regions.  The class  *)
(* GenomicRegionSet is not part of the files modelled here; its operations *)
(* are modelled after their description: intersect and subtract return     *)
(* new interval values (copies) of the regions they select, so that an     *)
(* assignment to the data of a returned region is not an assignment to a   *)
(* region of the set it was selected from.                                 *)
(***************************************************************************)
EXTENDS Integers, Sequences, FiniteSets, TLC

(***************************************************************************)
(* Iteration.  "for k in lo..hi: acc = Step(acc, k)", evaluated by halving *)
(* the range; the test on the value of the first half makes its evaluation *)
(* precede that of the second, so the depth stays logarithmic.             *)
(***************************************************************************)
RECURSIVE ForRange(_, _, _, _)
ForRange(Step(_, _), acc, lo, hi) ==
    IF lo > hi THEN acc
    ELSE IF lo = hi THEN Step(acc, lo)
    ELSE LET mid  == (lo + hi) \div 2
             half == ForRange(Step, acc, lo, mid)
         IN  IF half = half THEN ForRange(Step, half, mid + 1, hi) ELSE acc

(***************************************************************************)
(* Exact fractions                                                         *)
(***************************************************************************)
RECURSIVE GCD(_, _)
GCD(a, b) ==
    IF b = 0 THEN a ELSE GCD(b, a % b)

Abs(a) ==
    IF a < 0 THEN -a ELSE a

Rat(n, d) ==
    LET g == GCD(Abs(n), d)
    IN  [n |-> n \div g, d |-> d \div g]

RatAdd(a, b) ==
    Rat(a.n * b.d + b.n * a.d, a.d * b.d)

RatSub(a, b) ==
    Rat(a.n * b.d - b.n * a.d, a.d * b.d)

RatMul(a, b) ==
    Rat(a.n * b.n, a.d * b.d)

RatDiv(a, b) ==
    IF b.n > 0 THEN Rat(a.n * b.d, a.d * b.n) ELSE Rat(-(a.n * b.d), a.d * (-b.n))

RatLeq(a, b) ==
    a.n * b.d <= b.n * a.d

RatLt(a, b) ==
    a.n * b.d < b.n * a.d

Zero ==
    [n |-> 0, d |-> 1]

One ==
    [n |-> 1, d |-> 1]

\* the value of a variable that was never assigned
Unset ==
    [n |-> 0, d |-> 0]

(***************************************************************************)
(* Library functions the program calls                                     *)
(***************************************************************************)
\* numpy/scipy trapz(y, x): the trapezoidal integral of y over x
trapz(y, x) ==
    LET Step(acc, k) ==
            RatAdd(acc, RatMul(RatSub(x[k + 1], x[k]),
                               RatMul(RatAdd(y[k], y[k + 1]), [n |-> 1, d |-> 2])))
    IN  ForRange(Step, Zero, 1, Len(x) - 1)

NonDecreasing(x) ==
    \A k \in 1..(Len(x) - 1) : RatLeq(x[k], x[k + 1])

NonIncreasing(x) ==
    \A k \in 1..(Len(x) - 1) : RatLeq(x[k + 1], x[k])

\* sklearn.metrics.auc(x, y): needs two points and a monotonic x
metrics_auc(x, y) ==
    IF Len(x) < 2 THEN [status |-> "ValueError", value |-> Unset]
    ELSE IF NonDecreasing(x) THEN [status |-> "ok", value |-> trapz(y, x)]
    ELSE IF NonIncreasing(x)
         THEN [status |-> "ok", value |-> RatSub(Zero, trapz(y, x))]
    ELSE [status |-> "ValueError", value |-> Unset]

\* max(vector) and min(vector) of a non-empty list
SeqMax(v) ==
    LET Step(m, k) == IF RatLt(m, v[k]) THEN v[k] ELSE m
    IN  ForRange(Step, v[1], 2, Len(v))

SeqMin(v) ==
    LET Step(m, k) == IF RatLt(v[k], m) THEN v[k] ELSE m
    IN  ForRange(Step, v[1], 2, Len(v))

(***************************************************************************)
(* Evaluation.standardize                                                  *)
(***************************************************************************)
\* line 249
Rescale(vector, maxN, minN) ==
    IF maxN = minN THEN [status |-> "ZeroDivisionError", value |-> <<>>]
    ELSE [status |-> "ok",
          value  |-> [k \in 1..Len(vector) |->
                         RatDiv(RatSub(vector[k], minN), RatSub(maxN, minN))]]

standardize(vector) ==
    IF Len(vector) = 0 THEN [status |-> "ValueError", value |-> <<>>]
    ELSE Rescale(vector, SeqMax(vector), SeqMin(vector))

(***************************************************************************)
(* The walk of roc_curve and precision_recall_curve over a ranked list     *)
(***************************************************************************)
\* str(region.name).split(":")[-1] == "Y"
IsPositive(region) ==
    region.name[Len(region.name)] = "Y"

\* a walk whose negative step appends the count it had before the increment
RocStep_StaleCount(acc, region) ==
    IF IsPositive(region)
    THEN [count_x |-> acc.count_x,
          count_y |-> acc.count_y + 1,
          fpr     |-> Append(acc.fpr, acc.count_x),
          tpr     |-> Append(acc.tpr, acc.count_y + 1)]
    ELSE [count_x |-> acc.count_x + 1,
          count_y |-> acc.count_y,
          fpr     |-> Append(acc.fpr, acc.count_x),
          tpr     |-> Append(acc.tpr, acc.count_y)]

\* the body of the loop of lines 186-194
RocStep(acc, region) ==
    IF IsPositive(region)
    THEN [count_x |-> acc.count_x,
          count_y |-> acc.count_y + 1,
          fpr     |-> Append(acc.fpr, acc.count_x),
          tpr     |-> Append(acc.tpr, acc.count_y + 1)]
    ELSE [count_x |-> acc.count_x + 1,
          count_y |-> acc.count_y,
          fpr     |-> Append(acc.fpr, acc.count_x + 1),
          tpr     |-> Append(acc.tpr, acc.count_y)]

\* lines 182-194
RocWalk(regions) ==
    LET Step(acc, k) == RocStep(acc, regions[k])
    IN  ForRange(Step,
                 [count_x |-> 0, count_y |-> 0, fpr |-> <<0>>, tpr |-> <<0>>],
                 1, Len(regions))

\* [e * (1.0 / count) for e in vector]
Normalize(vector, count) ==
    [k \in 1..Len(vector) |-> Rat(vector[k], count)]

\* the number of values the loops of lines 205-208 and 215-219 copy: those
\* before the first one greater than the cutoff
PrefixLen(v, cutoff) ==
    LET over == {k \in 1..Len(v) : RatLt(cutoff, v[k])}
    IN  IF over = {} THEN Len(v)
        ELSE (CHOOSE k \in over : \A j \in over : k <= j) - 1

\* the denominators of the two cutoffs fpr_auc = 0.1 and fpr_auc = 0.01
Cutoff1Den ==
    10

Cutoff2Den ==
    100

\* lines 209 and 220: the area over the standardized window, if standardize
\* returned
WindowAuc(std, tpr_1) ==
    IF std.status # "ok" THEN [status |-> std.status, value |-> Unset]
    ELSE metrics_auc(std.value, tpr_1)

\* lines 203-209 and 213-220: the window of one cutoff
Window(fpr, tpr, len) ==
    WindowAuc(standardize(SubSeq(fpr, 1, len)), SubSeq(tpr, 1, len))

\* the truncated AUC of roc_curve for one cutoff
TruncatedAuc(fpr, tpr, cutoff) ==
    Window(fpr, tpr, PrefixLen(fpr, cutoff))

RocFailure(status, line) ==
    [status |-> status, line |-> line, fpr |-> <<>>, tpr |-> <<>>,
     roc_auc |-> Unset, roc_auc_1 |-> Unset, roc_auc_2 |-> Unset]

(***************************************************************************)
(* Evaluation.roc_curve                                                    *)
(***************************************************************************)
\* line 222, or the first of the three areas that raised
RocReturn(fpr, tpr, a, a1, a2) ==
    IF a.status # "ok" THEN RocFailure(a.status, 199)
    ELSE IF a1.status # "ok" THEN RocFailure(a1.status, 209)
    ELSE IF a2.status # "ok" THEN RocFailure(a2.status, 220)
    ELSE [status |-> "ok", line |-> 222, fpr |-> fpr, tpr |-> tpr,
          roc_auc |-> a.value, roc_auc_1 |-> a1.value, roc_auc_2 |-> a2.value]

\* lines 198-220
RocAreas(fpr, tpr) ==
    RocReturn(fpr, tpr,
              metrics_auc(fpr, tpr),
              TruncatedAuc(fpr, tpr, [n |-> 1, d |-> Cutoff1Den]),
              TruncatedAuc(fpr, tpr, [n |-> 1, d |-> Cutoff2Den]))

\* a normalization that leaves the positive counts as they are
RocRates_RawTpr(w) ==
    IF w.count_x = 0 THEN RocFailure("ZeroDivisionError", 195)
    ELSE IF w.count_y = 0 THEN RocFailure("ZeroDivisionError", 196)
    ELSE RocAreas(Normalize(w.fpr, w.count_x), Normalize(w.tpr, 1))

\* lines 195-196
RocRates(w) ==
    IF w.count_x = 0 THEN RocFailure("ZeroDivisionError", 195)
    ELSE IF w.count_y = 0 THEN RocFailure("ZeroDivisionError", 196)
    ELSE RocAreas(Normalize(w.fpr, w.count_x), Normalize(w.tpr, w.count_y))

roc_curve(sort_score_regions) ==
    RocRates(RocWalk(sort_score_regions))

\* a walk that appends the recall count it had before the increment
PrStep_StaleRecall(acc, region) ==
    LET cx == IF IsPositive(region) THEN acc.count_x ELSE acc.count_x + 1
        cy == IF IsPositive(region) THEN acc.count_y + 1 ELSE acc.count_y
    IN  [count_x   |-> cx,
         count_y   |-> cy,
         precision |-> Append(acc.precision, Rat(cy, cx + cy)),
         recall    |-> Append(acc.recall, acc.count_y)]

\* the body of the loop of lines 229-237
PrStep(acc, region) ==
    LET cx == IF IsPositive(region) THEN acc.count_x ELSE acc.count_x + 1
        cy == IF IsPositive(region) THEN acc.count_y + 1 ELSE acc.count_y
    IN  [count_x   |-> cx,
         count_y   |-> cy,
         precision |-> Append(acc.precision, Rat(cy, cx + cy)),
         recall    |-> Append(acc.recall, cy)]

\* lines 225-237
PrWalk(regions) ==
    LET Step(acc, k) == PrStep(acc, regions[k])
    IN  ForRange(Step,
                 [count_x |-> 0, count_y |-> 0,
                  precision |-> <<Zero>>, recall |-> <<0>>],
                 1, Len(regions))

(***************************************************************************)
(* Evaluation.precision_recall_curve.  The area (line 242) is a sum of     *)
(* fractions whose denominators are all the positions of the list; it is   *)
(* not computed here.                                                      *)
(***************************************************************************)
\* lines 239-244
PrRates(w) ==
    IF w.count_y = 0
    THEN [status |-> "ZeroDivisionError", line |-> 239,
          recall |-> <<>>, precision |-> <<>>]
    ELSE [status |-> "ok", line |-> 244,
          recall    |-> Append(Normalize(w.recall, w.count_y), One),
          precision |-> Append(w.precision, Zero)]

precision_recall_curve(sort_score_regions) ==
    PrRates(PrWalk(sort_score_regions))


(***************************************************************************)
(* The curve downsampler                                                   *)
(***************************************************************************)
\* a sampling that asks linspace for as many values as there are points
new_idx_list_AllPoints(length, max_points) ==
    [j \in 1..length |-> j]

\* [int(math.ceil(e)) for e in np.linspace(0, length - 1, max_points)],
\* as positions of a 1-based sequence
new_idx_list(length, max_points) ==
    IF max_points = 1 THEN <<1>>
    ELSE [j \in 1..max_points |->
             (((j - 1) * (length - 1) + (max_points - 2)) \div (max_points - 1)) + 1]

Pick(s, idx) ==
    [j \in 1..Len(idx) |-> s[idx[j]]]

\* the body of the loop of optimize_roc_points for one input
OptimizeRocSeq(s, max_points) ==
    IF Len(s) > max_points THEN Pick(s, new_idx_list(Len(s), max_points))
    ELSE s

\* the body of the loop of optimize_pr_points for one input: the points
\* returned, and what the pops leave of the caller's list
OptimizePrSeq(s, max_points) ==
    LET taken == IF max_points < Len(s) THEN max_points ELSE Len(s)
        data  == SubSeq(s, 1, taken)
        rest  == SubSeq(s, taken + 1, Len(s))
    IN  [out  |-> IF Len(rest) > max_points
                  THEN data \o Pick(rest, new_idx_list(Len(rest), max_points))
                  ELSE data \o rest,
         left |-> rest]

(***************************************************************************)
(* Evaluation.optimize_roc_points                                          *)
(***************************************************************************)
optimize_roc_points(d_fpr, d_tpr, names, max_pts) ==
    [new_fpr |-> [k \in 0..(names - 1) |-> OptimizeRocSeq(d_fpr[k], max_pts)],
     new_tpr |-> [k \in 0..(names - 1) |-> OptimizeRocSeq(d_tpr[k], max_pts)]]

(***************************************************************************)
(* Evaluation.optimize_pr_points                                           *)
(***************************************************************************)
optimize_pr_points(d_recall, d_precision, names, max_pts) ==
    [new_recall    |-> [k \in 0..(names - 1) |->
                           OptimizePrSeq(d_recall[k], max_pts).out],
     new_precision |-> [k \in 0..(names - 1) |->
                           OptimizePrSeq(d_precision[k], max_pts).out],
     recall        |-> [k \in 0..(names - 1) |->
                           OptimizePrSeq(d_recall[k], max_pts).left],
     precision     |-> [k \in 0..(names - 1) |->
                           OptimizePrSeq(d_precision[k], max_pts).left]]

(***************************************************************************)
(* GenomicRegionSet: the operations chip_evaluate calls                    *)
(***************************************************************************)
\* GenomicRegion.overlap: half-open intervals of one chromosome
Overlap(a, b) ==
    /\ a.chrom = b.chrom
    /\ a.initial < b.final
    /\ b.initial < a.final

CoordBefore(a, b) ==
    \/ a.initial < b.initial
    \/ a.initial = b.initial /\ a.final < b.final

\* the permutation that sorts positions 1..n by the strict order Before,
\* equal elements keeping their order (the sort is stable)
StableOrder(n, Before(_, _)) ==
    LET Rank(k) == Cardinality({j \in 1..n :
                        \/ Before(j, k)
                        \/ ~Before(k, j) /\ j < k}) + 1
        Place(order, k) == [order EXCEPT ![Rank(k)] = k]
    IN  ForRange(Place, [r \in 1..n |-> 0], 1, n)

\* GenomicRegionSet.sort: by coordinate
sort(regions) ==
    LET Before(j, k) == CoordBefore(regions[j], regions[k])
        order == StableOrder(Len(regions), Before)
    IN  [r \in 1..Len(regions) |-> regions[order[r]]]

\* GenomicRegionSet.sort_score: by int(data), descending
sort_score(regions) ==
    LET Before(j, k) == regions[j].data > regions[k].data
        order == StableOrder(Len(regions), Before)
    IN  [r \in 1..Len(regions) |-> regions[order[r]]]

\* copies of the regions of a that Keep selects, in the order of a
Select(a, Keep(_)) ==
    LET Step(acc, k) == IF Keep(k) THEN Append(acc, a[k]) ELSE acc
    IN  ForRange(Step, <<>>, 1, Len(a))

\* a.intersect(b, mode=OverlapType.ORIGINAL): a copy of every region of a
\* that overlaps a region of b, each once, in the order of a
intersect(a, b) ==
    LET Keep(k) == \E f \in 1..Len(b) : Overlap(a[k], b[f])
    IN  Select(a, Keep)

\* a.subtract(b, whole_region=True): a copy of every region of a that
\* overlaps no region of b
subtract(a, b) ==
    LET Keep(k) == ~(\E f \in 1..Len(b) : Overlap(a[k], b[f]))
    IN  Select(a, Keep)

\* the regions of a after the data of the regions that a.intersect(b)
\* returned were each raised by amount, if intersect returned the regions
\* of a themselves
SharedRegions(a, b, amount) ==
    [k \in 1..Len(a) |->
        IF \E f \in 1..Len(b) : Overlap(a[k], b[f])
        THEN [a[k] EXCEPT !.data = @ + amount]
        ELSE a[k]]

\* the regions of a after the data of the regions that a.intersect(b)
\* returned were each raised by amount: the regions returned are copies
RegionsAfterIntersect(a, b, amount) ==
    a


(***************************************************************************)
(* State                                                                   *)
(***************************************************************************)
VARIABLES
    tfbs_file,                     \* the regions of the file self.tfbs_file
    footprint_type,                \* self.footprint_type, one tag per input
    mpbs_regions,                  \* the regions read from tfbs_file
    max_score,
    i,                             \* the loop variable of lines 82-110
    footprints_regions,
    increased_score_mpbs_regions,
    fpr, tpr, roc_auc, roc_auc_1, roc_auc_2, recall, precision,
    stats,                         \* the rows written to <tf_name>_stats.txt
    new_fpr, new_tpr, new_recall, new_precision,
    max_points,
    pc,
    exception,                     \* the exception that ended the run
    cv_regions,                    \* a ranked list given to the curve builders
    cv_roc,                        \* what roc_curve did with it
    cv_pr                          \* what precision_recall_curve did with it

chipVars ==
    <<tfbs_file, footprint_type, mpbs_regions, max_score, i, footprints_regions,
      increased_score_mpbs_regions, roc_auc, roc_auc_1, roc_auc_2, stats, exception>>

curveDicts ==
    <<fpr, tpr, recall, precision>>

downVars ==
    <<new_fpr, new_tpr, new_recall, new_precision, max_points>>

cvVars ==
    <<cv_regions, cv_roc, cv_pr>>

vars ==
    <<chipVars, curveDicts, downVars, cvVars, pc>>

(***************************************************************************)
(* Inputs                                                                  *)
(***************************************************************************)
\* ground-truth regions whose label and score vary
NumFree ==
    3

\* predicted-footprint inputs of one run
NumInputs ==
    2

\* the scores given to the varying regions, in rotation
ScoreCycle ==
    <<10, 5, 2>>

\* the least number of negatives with which both truncated windows of
\* roc_curve hold two distinct rates
PadSizes ==
    {0, Cutoff2Den}

Region(initial, final, name, data) ==
    [chrom |-> "chr1", initial |-> initial, final |-> final,
     name |-> name, data |-> data]

FreeRegion(j, label, shift) ==
    Region(10 * j, 10 * j + 5, <<"m", label>>,
           ScoreCycle[((j - 1 + shift) % Len(ScoreCycle)) + 1])

\* a negative whose name has the token Y before the last one
PadRegion(p) ==
    Region(10 * (NumFree + p), 10 * (NumFree + p) + 5, <<"Y", "N">>, ScoreCycle[2])

\* a file of labelled, scored regions: the padding lines first, then the
\* varying regions, so the file is not in coordinate order
RegionFile(labels, shift, pad) ==
    [p \in 1..pad |-> PadRegion(p)] \o
    [j \in 1..NumFree |-> FreeRegion(j, labels[j], shift)]

Alternating ==
    [j \in 1..NumFree |-> IF j % 2 = 1 THEN "Y" ELSE "N"]

\* the labels of the varying regions: Y and N in turn, all N, all Y
LabelVectors ==
    {Alternating, [j \in 1..NumFree |-> "N"], [j \in 1..NumFree |-> "Y"]}

\* ground-truth files: the empty one, and every labelling and rotation of
\* the scores with and without the padding
TfbsFiles ==
    {<<>>} \cup
    {RegionFile(l, s, p) : l \in LabelVectors, s \in 0..(Len(ScoreCycle) - 1),
                           p \in PadSizes}

\* files of scored predictions (type SC)
ScFiles ==
    {RegionFile(Alternating, 1, p) : p \in PadSizes}

Footprint(initial, final) ==
    Region(initial, final, <<"fp">>, 0)

\* files of unscored footprint calls (type SEG): none; one call on the third
\* region and two on the first, out of order; one call across the second and
\* third region, one that starts where the third ends and one on the first
\* padding region
SegFiles ==
    {<<>>,
     <<Footprint(32, 33), Footprint(13, 15), Footprint(10, 12)>>,
     <<Footprint(10 * (NumFree + 1), 10 * (NumFree + 1) + 1),
       Footprint(24, 32), Footprint(35, 40)>>}

TypeVectors ==
    UNION {[1..n -> {"SEG", "SC"}] : n \in 1..NumInputs}

EmptyDict ==
    [k \in {} |-> <<>>]

Put(dict, key, value) ==
    [k \in (DOMAIN dict) \cup {key} |-> IF k = key THEN value ELSE dict[k]]

(***************************************************************************)
(* Evaluation.chip_evaluate                                                *)
(***************************************************************************)
\* the value max_score is given before the loop of lines 76-79
NoScore ==
    -99999999

\* lines 75-79
MaxScoreOf(regions) ==
    LET Step(best, k) == IF regions[k].data > best THEN regions[k].data ELSE best
    IN  ForRange(Step, NoScore, 1, Len(regions))

\* the default of the parameter max_points of the two downsamplers
DefaultMaxPoints ==
    1000

NotCalled ==
    "not called"

\* the locals of chip_evaluate before its first statement
ChipLocals ==
    /\ mpbs_regions = <<>>
    /\ max_score = NoScore
    /\ i = 0
    /\ footprints_regions = <<>>
    /\ increased_score_mpbs_regions = <<>>
    /\ roc_auc = EmptyDict /\ roc_auc_1 = EmptyDict /\ roc_auc_2 = EmptyDict
    /\ stats = <<>>
    /\ exception = [type |-> "none", line |-> 0]

NoCurves ==
    /\ fpr = EmptyDict /\ tpr = EmptyDict
    /\ recall = EmptyDict /\ precision = EmptyDict

NoTables ==
    /\ new_fpr = EmptyDict /\ new_tpr = EmptyDict
    /\ new_recall = EmptyDict /\ new_precision = EmptyDict

NoCurveCall ==
    /\ cv_regions = <<>>
    /\ cv_roc = RocFailure(NotCalled, 0)
    /\ cv_pr = [status |-> NotCalled, line |-> 0, recall |-> <<>>, precision |-> <<>>]

InitChip ==
    /\ tfbs_file \in TfbsFiles
    /\ footprint_type \in TypeVectors
    /\ ChipLocals
    /\ NoCurves
    /\ NoTables
    /\ max_points = DefaultMaxPoints
    /\ pc = "start"
    /\ NoCurveCall

HasSeg ==
    \E k \in DOMAIN footprint_type : footprint_type[k] = "SEG"

\* lines 69-80: read and sort the ground truth, find one more than its
\* greatest score
ReadMpbs ==
    /\ pc = "start"
    /\ IF HasSeg
       THEN /\ mpbs_regions' = sort(tfbs_file)
            /\ max_score' = MaxScoreOf(sort(tfbs_file)) + 1
       ELSE UNCHANGED <<mpbs_regions, max_score>>
    /\ pc' = "loop"
    /\ UNCHANGED <<tfbs_file, footprint_type, i, footprints_regions,
                   increased_score_mpbs_regions, roc_auc, roc_auc_1, roc_auc_2,
                   stats, exception, curveDicts, downVars, cvVars>>

\* a boost that gives every region max_score for its data
Boost_Replace(intersect_regions, amount) ==
    [k \in 1..Len(intersect_regions) |->
        [intersect_regions[k] EXCEPT !.data = amount]]

\* lines 93-95: every region of intersect_regions gets max_score added to
\* its data
Boost(intersect_regions, amount) ==
    [k \in 1..Len(intersect_regions) |->
        [intersect_regions[k] EXCEPT !.data = @ + amount]]

\* a fused collection that holds the boosted regions only
Fused_OverlappedOnly(boosted, without_intersect_regions) ==
    sort_score(boosted)

\* lines 91-103: the boosted regions, then the others, sorted by score
Fused(boosted, without_intersect_regions) ==
    sort_score(boosted \o without_intersect_regions)

\* lines 83-103 for an input of type SEG
FuseSeg ==
    /\ pc = "loop"
    /\ footprint_type[i + 1] = "SEG"
    /\ \E file \in SegFiles :
         \E fp \in {sort(file)} :
           \E boosted \in {Boost(intersect(mpbs_regions, fp), max_score)} :
             \E after \in {RegionsAfterIntersect(mpbs_regions, fp, max_score)} :
               \E without_intersect_regions \in {subtract(after, fp)} :
                 /\ footprints_regions' = fp
                 /\ mpbs_regions' = after
                 /\ increased_score_mpbs_regions' =
                        Fused(boosted, without_intersect_regions)
    /\ pc' = "curves"
    /\ UNCHANGED <<tfbs_file, footprint_type, max_score, i, roc_auc, roc_auc_1,
                   roc_auc_2, stats, exception, curveDicts, downVars, cvVars>>

\* lines 83-87 and 108 for an input of type SC
RankSc ==
    /\ pc = "loop"
    /\ footprint_type[i + 1] = "SC"
    /\ \E file \in ScFiles :
         footprints_regions' = sort_score(sort(file))
    /\ pc' = "curves"
    /\ UNCHANGED <<tfbs_file, footprint_type, mpbs_regions, max_score, i,
                   increased_score_mpbs_regions, roc_auc, roc_auc_1, roc_auc_2,
                   stats, exception, curveDicts, downVars, cvVars>>

\* the ranked list of the current input
RankedList ==
    IF footprint_type[i + 1] = "SEG"
    THEN increased_score_mpbs_regions
    ELSE footprints_regions

\* lines 105-106 and 109-110: the two curves of the current input
Curves ==
    /\ pc = "curves"
    /\ \E r \in {roc_curve(RankedList)}, p \in {precision_recall_curve(RankedList)} :
           IF r.status # "ok"
           THEN /\ exception' = [type |-> r.status, line |-> r.line]
                /\ pc' = "raised"
                /\ UNCHANGED <<i, roc_auc, roc_auc_1, roc_auc_2, curveDicts>>
           ELSE IF p.status # "ok"
           THEN /\ exception' = [type |-> p.status, line |-> p.line]
                /\ pc' = "raised"
                /\ fpr' = Put(fpr, i, r.fpr)
                /\ tpr' = Put(tpr, i, r.tpr)
                /\ roc_auc' = Put(roc_auc, i, r.roc_auc)
                /\ roc_auc_1' = Put(roc_auc_1, i, r.roc_auc_1)
                /\ roc_auc_2' = Put(roc_auc_2, i, r.roc_auc_2)
                /\ UNCHANGED <<i, recall, precision>>
           ELSE /\ fpr' = Put(fpr, i, r.fpr)
                /\ tpr' = Put(tpr, i, r.tpr)
                /\ roc_auc' = Put(roc_auc, i, r.roc_auc)
                /\ roc_auc_1' = Put(roc_auc_1, i, r.roc_auc_1)
                /\ roc_auc_2' = Put(roc_auc_2, i, r.roc_auc_2)
                /\ recall' = Put(recall, i, p.recall)
                /\ precision' = Put(precision, i, p.precision)
                /\ i' = i + 1
                /\ pc' = IF i + 1 = Len(footprint_type) THEN "report" ELSE "loop"
                /\ UNCHANGED exception
    /\ UNCHANGED <<tfbs_file, footprint_type, mpbs_regions, max_score,
                   footprints_regions, increased_score_mpbs_regions, stats,
                   downVars, cvVars>>

\* lines 112-133: the statistics table and, through output_points, the
\* downsampled point tables
Report ==
    /\ pc = "report"
    /\ stats' = [k \in 1..Len(footprint_type) |->
                    <<roc_auc[k - 1], roc_auc_1[k - 1], roc_auc_2[k - 1]>>]
    /\ \E o \in {optimize_roc_points(fpr, tpr, Len(footprint_type), max_points)},
          q \in {optimize_pr_points(recall, precision, Len(footprint_type), max_points)} :
           /\ new_fpr' = o.new_fpr
           /\ new_tpr' = o.new_tpr
           /\ new_recall' = q.new_recall
           /\ new_precision' = q.new_precision
           /\ recall' = q.recall
           /\ precision' = q.precision
    /\ pc' = "done"
    /\ UNCHANGED <<tfbs_file, footprint_type, mpbs_regions, max_score, i,
                   footprints_regions, increased_score_mpbs_regions, roc_auc,
                   roc_auc_1, roc_auc_2, exception, fpr, tpr, max_points, cvVars>>

Init ==
    InitChip

Next ==
    \/ ReadMpbs
    \/ FuseSeg
    \/ RankSc
    \/ Curves
    \/ Report

Spec ==
    Init /\ [][Next]_vars


(***************************************************************************)
(* The curve builders on their own: roc_curve and precision_recall_curve   *)
(* called on a ranked list                                                 *)
(***************************************************************************)
\* the longest run of varying regions before and after the padding
MaxHead ==
    2

MaxTail ==
    2

\* the numbers of negatives around which each truncated window gains its
\* second rate
CurvePads ==
    {0, Cutoff1Den - 1, Cutoff1Den, Cutoff2Den - 1, Cutoff2Den}

LabelSeqs(n) ==
    UNION {[1..m -> {"Y", "N"}] : m \in 0..n}

\* a list in score order: position k of len has score len - k
Ranked(head, pad, tail) ==
    LET len == Len(head) + pad + Len(tail)
    IN  [k \in 1..len |->
            IF k <= Len(head)
            THEN Region(10 * k, 10 * k + 5, <<"m", head[k]>>, len - k)
            ELSE IF k <= Len(head) + pad
            THEN Region(10 * k, 10 * k + 5, <<"Y", "N">>, len - k)
            ELSE Region(10 * k, 10 * k + 5,
                        <<"m", tail[k - Len(head) - pad]>>, len - k)]

RankedLists ==
    {Ranked(h, p, t) : h \in LabelSeqs(MaxHead), p \in CurvePads,
                       t \in LabelSeqs(MaxTail)}

InitCurve ==
    /\ tfbs_file = <<>>
    /\ footprint_type = <<>>
    /\ ChipLocals
    /\ NoCurves
    /\ NoTables
    /\ max_points = DefaultMaxPoints
    /\ pc = "curve builders"
    /\ cv_regions \in RankedLists
    /\ cv_roc = RocFailure(NotCalled, 0)
    /\ cv_pr = [status |-> NotCalled, line |-> 0, recall |-> <<>>, precision |-> <<>>]

CallRoc ==
    /\ pc = "curve builders"
    /\ cv_roc.status = NotCalled
    /\ cv_roc' = roc_curve(cv_regions)
    /\ UNCHANGED <<chipVars, curveDicts, downVars, cv_regions, cv_pr, pc>>

CallPr ==
    /\ pc = "curve builders"
    /\ cv_pr.status = NotCalled
    /\ cv_pr' = precision_recall_curve(cv_regions)
    /\ UNCHANGED <<chipVars, curveDicts, downVars, cv_regions, cv_roc, pc>>

NextCurve ==
    \/ CallRoc
    \/ CallPr

SpecCurve ==
    InitCurve /\ [][NextCurve]_vars

(***************************************************************************)
(* The downsamplers on their own: optimize_roc_points and                  *)
(* optimize_pr_points called on curves of any length                       *)
(***************************************************************************)
\* the longest ROC sequence, the greatest max_points, the most inputs
MaxLen ==
    7

MaxPoints ==
    3

MaxNames ==
    2

\* a sequence of len points, the point at position k being k - 1
Points(len) ==
    [k \in 1..len |-> k - 1]

InitDown ==
    /\ tfbs_file = <<>>
    /\ \E n \in 1..MaxNames :
         /\ footprint_type = [k \in 1..n |-> "SC"]
         /\ \E lens \in [0..(n - 1) -> 1..MaxLen] :
              /\ fpr = [k \in 0..(n - 1) |-> Points(lens[k])]
              /\ tpr = [k \in 0..(n - 1) |-> Points(lens[k])]
              /\ recall = [k \in 0..(n - 1) |-> Points(lens[k] + 1)]
              /\ precision = [k \in 0..(n - 1) |-> Points(lens[k] + 1)]
    /\ ChipLocals
    /\ NoTables
    /\ max_points \in 1..MaxPoints
    /\ pc = "downsamplers"
    /\ NoCurveCall

CallOptimizeRoc ==
    /\ pc = "downsamplers"
    /\ new_fpr = EmptyDict
    /\ \E o \in {optimize_roc_points(fpr, tpr, Len(footprint_type), max_points)} :
         /\ new_fpr' = o.new_fpr
         /\ new_tpr' = o.new_tpr
    /\ UNCHANGED <<chipVars, curveDicts, new_recall, new_precision, max_points,
                   cvVars, pc>>

CallOptimizePr ==
    /\ pc = "downsamplers"
    /\ new_recall = EmptyDict
    /\ \E q \in {optimize_pr_points(recall, precision, Len(footprint_type),
                                    max_points)} :
         /\ new_recall' = q.new_recall
         /\ new_precision' = q.new_precision
         /\ recall' = q.recall
         /\ precision' = q.precision
    /\ UNCHANGED <<chipVars, fpr, tpr, new_fpr, new_tpr, max_points, cvVars, pc>>

NextDown ==
    \/ CallOptimizeRoc
    \/ CallOptimizePr

SpecDown ==
    InitDown /\ [][NextDown]_vars


(***************************************************************************)
(* Properties of the boosted-overlap fusion (specification Spec)           *)
(***************************************************************************)
\* the fusion of lines 89-103 has just run for the input at index i
SegFused ==
    /\ pc = "curves"
    /\ footprint_type[i + 1] = "SEG"

\* the ground-truth region at position k overlaps a footprint of the input
Overlapped(k) ==
    \E f \in 1..Len(footprints_regions) :
        Overlap(mpbs_regions[k], footprints_regions[f])

\* the score the file gives the region at position k of mpbs_regions
OriginalScore(k) ==
    sort(tfbs_file)[k].data

\* region r is an interval value of the ground-truth region g
SameInterval(r, g) ==
    /\ r.chrom = g.chrom
    /\ r.initial = g.initial
    /\ r.final = g.final
    /\ r.name = g.name

\* how many regions of the fused collection are the interval at position k
Occurrences(fused, k) ==
    Cardinality({r \in 1..Len(fused) : SameInterval(fused[r], mpbs_regions[k])})

\* the fused region at position q is an interval no footprint overlaps
NotOverlappedAt(q) ==
    \E j \in 1..Len(mpbs_regions) :
        /\ ~Overlapped(j)
        /\ SameInterval(increased_score_mpbs_regions[q], mpbs_regions[j])

\* C1: for every SEG input, the first and the later ones, the fused
\* collection holds every ground-truth interval exactly once, so its
\* cardinality is that of the ground truth.
C1_FusionKeepsEveryInterval ==
    SegFused =>
        /\ Len(mpbs_regions) = Len(tfbs_file)
        /\ Len(increased_score_mpbs_regions) = Len(tfbs_file)
        /\ \A k \in 1..Len(mpbs_regions) :
               Occurrences(increased_score_mpbs_regions, k) = 1

\* a later SEG input whose footprints overlap some but not all intervals
C1_Witness ==
    /\ SegFused
    /\ i >= 1
    /\ \E k \in 1..Len(mpbs_regions) : Overlapped(k)
    /\ \E k \in 1..Len(mpbs_regions) : ~Overlapped(k)

ExampleTruth ==
    <<Region(10, 15, <<"m", "Y">>, 10), Region(20, 25, <<"m", "N">>, 5),
      Region(30, 35, <<"m", "Y">>, 2)>>

\* the first input is of type SEG, its footprints overlap the first and the
\* third interval of the example only, and its curves have been asked for
ExampleEvaluated ==
    /\ tfbs_file = ExampleTruth
    /\ footprint_type[1] = "SEG"
    /\ \/ i = 0 /\ pc = "raised"
       \/ i = 1 /\ pc \in {"loop", "report"}
    /\ \A k \in 1..Len(mpbs_regions) : Overlapped(k) <=> k \in {1, 3}

Last(seq) ==
    seq[Len(seq)]

\* C10: end to end on the example, the fused scores are 21, 5, 13, the
\* ranking is 21(Y), 13(Y), 5(N), the ROC sequence ends at (1,1) and
\* roc_auc_full is 1.
C10_EndToEndExample ==
    ExampleEvaluated =>
        /\ max_score = 11
        /\ increased_score_mpbs_regions =
               <<[ExampleTruth[1] EXCEPT !.data = 21],
                 [ExampleTruth[3] EXCEPT !.data = 13],
                 ExampleTruth[2]>>
        /\ 0 \in DOMAIN roc_auc
        /\ Last(fpr[0]) = One
        /\ Last(tpr[0]) = One
        /\ roc_auc[0] = One

(***************************************************************************)
(* Properties of the curve builders (specification SpecCurve)              *)
(***************************************************************************)
Positives(regions) ==
    Cardinality({k \in 1..Len(regions) : IsPositive(regions[k])})

Negatives(regions) ==
    Cardinality({k \in 1..Len(regions) : ~IsPositive(regions[k])})

\* the positives among the first k regions
Seen(regions, k) ==
    Cardinality({j \in 1..k : IsPositive(regions[j])})

InUnit(r) ==
    RatLeq(Zero, r) /\ RatLeq(r, One)

C5_FatalInputBeforeWalk ==
    (Positives(cv_regions) = 0 \/ Negatives(cv_regions) = 0) =>
        /\ cv_roc.status \in {NotCalled, "FatalInput"}
        /\ cv_pr.status \in {NotCalled, "FatalInput"}

\* C6: with positives and negatives but too few negatives for a truncated
\* window to hold two distinct rates, roc_curve still returns.
C6_DegenerateWindowSentinel ==
    (/\ cv_roc.status # NotCalled
     /\ Positives(cv_regions) >= 1
     /\ Negatives(cv_regions) >= 1
     /\ Negatives(cv_regions) < Cutoff2Den) => cv_roc.status = "ok"

\* C7: for a list with a positive, precision_recall_curve returns two
\* sequences of length P+N+2 that begin with (0,0), hold at step k the
\* precision seen/k and the recall seen/P, keep precision in [0,1] and
\* recall in [0,1] and non-decreasing, and end with recall 1, precision 0.
C7_PrSequence ==
    (cv_pr.status # NotCalled /\ Positives(cv_regions) >= 1) =>
        LET P == Positives(cv_regions)
            N == Negatives(cv_regions)
            r == cv_pr.recall
            q == cv_pr.precision
        IN  /\ cv_pr.status = "ok"
            /\ Len(r) = P + N + 2
            /\ Len(q) = P + N + 2
            /\ r[1] = Zero /\ q[1] = Zero
            /\ \A k \in 1..(P + N) :
                   /\ q[k + 1] = Rat(Seen(cv_regions, k), k)
                   /\ r[k + 1] = Rat(Seen(cv_regions, k), P)
            /\ \A k \in 1..(P + N + 2) : InUnit(q[k]) /\ InUnit(r[k])
            /\ \A k \in 1..(P + N + 1) : RatLeq(r[k], r[k + 1])
            /\ Last(r) = One /\ Last(q) = Zero

\* precision_recall_curve returned for a list with positives and negatives
C7_Witness ==
    /\ cv_pr.status = "ok"
    /\ Positives(cv_regions) >= 2
    /\ Negatives(cv_regions) >= 2
    /\ ~IsPositive(cv_regions[1])

\* C9: each truncated AUC that roc_curve returns lies in [0,1].
C9_TruncatedAucInUnit ==
    cv_roc.status = "ok" => InUnit(cv_roc.roc_auc_1) /\ InUnit(cv_roc.roc_auc_2)

\* roc_curve returned truncated areas that are neither 0 nor 1
C9_Witness ==
    /\ cv_roc.status = "ok"
    /\ RatLt(Zero, cv_roc.roc_auc_1) /\ RatLt(cv_roc.roc_auc_1, One)
    /\ RatLt(Zero, cv_roc.roc_auc_2) /\ RatLt(cv_roc.roc_auc_2, One)

(***************************************************************************)
(* Properties of the downsamplers (specification SpecDown)                 *)
(***************************************************************************)
\* C8 as stated: with max_points >= 2 both downsamplers return at most
\* max_points points per input.
C8_BothAtMostMaxPoints ==
    max_points >= 2 =>
        /\ \A k \in DOMAIN new_fpr : Len(new_fpr[k]) <= max_points
        /\ \A k \in DOMAIN new_recall : Len(new_recall[k]) <= max_points

\* C8 as amended: optimize_roc_points returns at most max_points points per
\* input and optimize_pr_points at most twice max_points.
C8_RocAtMostPrAtMostTwice ==
    /\ \A k \in DOMAIN new_fpr :
           /\ Len(new_fpr[k]) <= max_points
           /\ Len(new_tpr[k]) <= max_points
    /\ \A k \in DOMAIN new_recall :
           /\ Len(new_recall[k]) <= 2 * max_points
           /\ Len(new_precision[k]) <= 2 * max_points

\* both downsamplers sampled an input: the ROC sequence was longer than
\* max_points and more than max_points points were left after the prefix
C8_Witness ==
    /\ max_points >= 2
    /\ \E k \in DOMAIN new_fpr :
           /\ k \in DOMAIN new_recall
           /\ Len(fpr[k]) > max_points
           /\ Len(recall[k]) > max_points
           /\ Len(new_recall[k]) = 2 * max_points

=============================================================================
